---- MODULE Spec2Model ----
\* A model of epub2md.py: the four-stage pipeline main -> step_1 -> step_2 ->
\* step_3 -> step_4. Text is a sequence of one-character strings; a file is a
\* record [exists, data]; the notes directory is a function from path to text.
EXTENDS Integers, Sequences, FiniteSets, TLC

VARIABLES
  pc,              \* position of main / of the running step
  args,            \* parsed command line: [step_1, no_step_1, heading_level]
  epub,            \* the Markdown text pandoc produces from the source document
  outfile,         \* the combined Markdown file (args.outfile)
  metadata_file,   \* the YAML template file (args.metadata)
  resources_file,  \* the resources template file (args.resources)
  notes,           \* the note files on disk: path -> content
  note_files,      \* main's note_files / step_2's note_file_paths
  lines,           \* step_2: content.splitlines()
  split_indices,   \* step_2: indices of the heading lines (1-based here)
  idx,             \* loop position of the running step (1-based)
  yaml_template,   \* step_3: the template as loaded
  resources_base,  \* step_4: the template as loaded
  returncode,      \* exit status of the pandoc subprocess, -1 before it ran
  trace,           \* the steps entered so far, in order
  chunks,          \* step_2: chunk_lines of every iteration so far
  written,         \* step_2: the text written in every iteration so far
  writes,          \* every open(..., "w") on a note so far: <<step, path>>
  reads,           \* the template files opened so far
  before3,         \* the notes directory when step_3 was entered
  appended         \* step_4: resources_content of every iteration so far

vars == <<pc, args, epub, outfile, metadata_file, resources_file, notes,
          note_files, lines, split_indices, idx, yaml_template, resources_base,
          returncode, trace, chunks, written, writes, reads, before3, appended>>

\* ---------------------------------------------------------------- bounds

MaxLines == 3
MaxLevel == 2

\* ------------------------------------------------------------------ text

NL == "\n"
Whitespace == {" ", NL, "\t"}

Range(s) == {s[k] : k \in DOMAIN s}

Last(s) == s[Len(s)]

StartsWith(s, prefix) ==
  /\ Len(prefix) <= Len(s)
  /\ SubSeq(s, 1, Len(prefix)) = prefix

EndsWith(s, suffix) ==
  /\ Len(suffix) <= Len(s)
  /\ SubSeq(s, Len(s) - Len(suffix) + 1, Len(s)) = suffix

\* "#" * n
RECURSIVE Repeat(_, _)
Repeat(s, n) == IF n <= 0 THEN <<>> ELSE s \o Repeat(s, n - 1)

\* position of the first "\n" of s, 0 when there is none
RECURSIVE FirstNL(_, _)
FirstNL(s, k) ==
  IF k > Len(s) THEN 0 ELSE IF s[k] = NL THEN k ELSE FirstNL(s, k + 1)

\* str.splitlines(): the lines without their terminators; a final terminator
\* opens no further line. "\n" is the only line terminator of the model's
\* alphabet (the files are read in text mode, which turns "\r\n" into "\n").
RECURSIVE splitlines(_)
splitlines(s) ==
  IF s = <<>> THEN <<>>
  ELSE LET k == FirstNL(s, 1)
       IN IF k = 0 THEN <<s>>
          ELSE <<SubSeq(s, 1, k - 1)>> \o splitlines(SubSeq(s, k + 1, Len(s)))

\* sep.join(parts)
RECURSIVE join(_, _)
join(sep, parts) ==
  IF parts = <<>> THEN <<>>
  ELSE IF Len(parts) = 1 THEN parts[1]
  ELSE parts[1] \o sep \o join(sep, Tail(parts))

\* str.lstrip(chars)
RECURSIVE lstrip(_, _)
lstrip(s, chars) ==
  IF s # <<>> /\ Head(s) \in chars THEN lstrip(Tail(s), chars) ELSE s

RECURSIVE rstrip(_, _)
rstrip(s, chars) ==
  IF s # <<>> /\ Last(s) \in chars THEN rstrip(SubSeq(s, 1, Len(s) - 1), chars)
  ELSE s

\* str.strip()
strip(s) == rstrip(lstrip(s, Whitespace), Whitespace)

\* str.replace(old, new): leftmost, non-overlapping occurrences
RECURSIVE replace(_, _, _)
replace(s, old, new) ==
  IF s = <<>> THEN <<>>
  ELSE IF StartsWith(s, old)
       THEN new \o replace(SubSeq(s, Len(old) + 1, Len(s)), old, new)
       ELSE <<Head(s)>> \o replace(Tail(s), old, new)

\* str.lower(), on the letters that occur in the model's paths
LowerChar(c) ==
  CASE c = "A" -> "a" [] c = "B" -> "b" [] c = "X" -> "x" [] c = "Y" -> "y"
    [] OTHER -> c

lower(s) == [k \in DOMAIN s |-> LowerChar(s[k])]

\* position of the last occurrence of c in s, 0 when there is none
RECURSIVE rfind(_, _, _)
rfind(s, c, k) ==
  IF k = 0 THEN 0 ELSE IF s[k] = c THEN k ELSE rfind(s, c, k - 1)

\* os.path.join(a, b) on a POSIX system
path_join(a, b) ==
  IF StartsWith(b, <<"/">>) THEN b
  ELSE IF a = <<>> \/ EndsWith(a, <<"/">>) THEN a \o b
  ELSE a \o <<"/">> \o b

\* os.path.basename(p)
basename(p) == SubSeq(p, rfind(p, "/", Len(p)) + 1, Len(p))

\* os.path.splitext(p)[0]: the extension starts at the last dot of the last
\* path component, but leading dots of that component start no extension
splitext0(p) ==
  LET sep == rfind(p, "/", Len(p))
      dot == rfind(p, ".", Len(p))
  IN IF dot > sep /\ \E k \in (sep + 1)..(dot - 1) : p[k] # "."
     THEN SubSeq(p, 1, dot - 1)
     ELSE p

\* ------------------------------------------------------------ constants

MD == <<".", "m", "d">>
OutDir == <<"n", "o", "t", "e", "s">>
Placeholder ==
  <<"<", "N", "E", "X", "T", "_", "N", "O", "T", "E", "_", "L", "I", "N", "K", ">">>
NoNext == <<"N", "/", "A">>
IllegalChars == {"\\", "/", "*", "?", ":", "\"", "<", ">", "|"}

Missing == [exists |-> FALSE, data |-> <<>>]
File(text) == [exists |-> TRUE, data |-> text]

\* ------------------------------------------------------------- step_1

\* subprocess.run(..., check=False): the exit status is not inspected
SubprocessRunChecked(code) == IF code # 0 THEN "raises" ELSE "returns"
SubprocessRun(code) == "returns"

\* ------------------------------------------------------------- step_2

HeadingStr(heading_lvl) == Repeat(<<"#">>, heading_lvl)

\* line.startswith(heading_str + " ")
IsHeadingNoSpace(line, heading_str) == StartsWith(line, heading_str)
IsHeading(line, heading_str) == StartsWith(line, heading_str \o <<" ">>)

\* [idx for idx, line in enumerate(lines) if line.startswith(...)]
RECURSIVE IndicesFrom(_, _, _)
IndicesFrom(ls, heading_str, k) ==
  IF k > Len(ls) THEN <<>>
  ELSE (IF IsHeading(ls[k], heading_str) THEN <<k>> ELSE <<>>)
       \o IndicesFrom(ls, heading_str, k + 1)

SplitIndices(ls, heading_str) == IndicesFrom(ls, heading_str, 1)

\* lines[start_index:end_index], end_index the next heading or len(lines)
ChunkLinesToEnd(ls, si, i) == SubSeq(ls, si[i], Len(ls))
ChunkLines(ls, si, i) ==
  LET end_index == IF i + 1 <= Len(si) THEN si[i + 1] - 1 ELSE Len(ls)
  IN SubSeq(ls, si[i], end_index)

\* chunk_lines[0].lstrip("#").strip()
HeadingText(line) == strip(lstrip(line, {"#"}))

\* re.sub(r'[\\/*?:"<>|]', '', heading_text)
IsLegal(c) == c \notin IllegalChars
SafeHeading(heading_text) == SelectSeq(heading_text, IsLegal)

\* os.path.join(outdir_path, f"{safe_heading}.md")
NotePath(line) == path_join(OutDir, SafeHeading(HeadingText(line)) \o MD)

\* "\n".join(chunk_lines), then "\n"
NoteContentNoNewline(chunk_lines) == join(<<NL>>, chunk_lines)
NoteContent(chunk_lines) == join(<<NL>>, chunk_lines) \o <<NL>>

\* open(path, "w") ... write(data): the file is created or truncated
WriteFileAppend(dir, path, data) ==
  (path :> ((IF path \in DOMAIN dir THEN dir[path] ELSE <<>>) \o data)) @@ dir
WriteFile(dir, path, data) == (path :> data) @@ dir

\* ------------------------------------------------------------- step_3

\* note_path.lower().endswith(".md")
IsMarkdownPath(note_path) == EndsWith(lower(note_path), MD)

\* f"{yaml_template}\n\n{original_content}"
NewContent3OneNewline(template, original_content) ==
  template \o <<NL>> \o original_content
NewContent3(template, original_content) ==
  template \o <<NL, NL>> \o original_content

\* ------------------------------------------------------------- step_4

\* next_note_link of iteration i
NextNoteLink(files, i) ==
  IF i < Len(files)
  THEN <<"[", "[">> \o splitext0(basename(files[i + 1])) \o <<"]", "]">>
  ELSE NoNext

\* resources_base.replace("<NEXT_NOTE_LINK>", next_note_link)
ResourcesContent(base, link) == replace(base, Placeholder, link)

\* f"{original_content}\n\n{resources_content}\n"
NewContent4(original_content, resources_content) ==
  original_content \o <<NL, NL>> \o resources_content \o <<NL>>

\* --------------------------------------------------------------- main

\* lines 169-175: which step main calls first
FirstStep(a) == IF a.step_1 \/ ~a.no_step_1 THEN "step_1" ELSE "step_2"

\* lines 170-175: where main goes when step_1 returned
AfterStep1Continue(a) == "step_2"
AfterStep1(a) == IF a.step_1 THEN "exit_step_1" ELSE "step_2"

\* lines 176-179: where main goes when step_2 returned
AfterSplitAlways(files) == "step_3"
AfterSplit(files) == IF files = <<>> THEN "exit_no_notes" ELSE "step_3"

\* ------------------------------------------------------------- inputs

\* the lines the bounded documents are built from
LinePool ==
  { <<"#", " ", "X">>,            \* "# X"
    <<"#", " ", "X", "/">>,       \* "# X/"   sanitizes to X
    <<"#", " ", "Y">>,            \* "# Y"
    <<"#", "#", " ", "X">>,       \* "## X"
    <<>>,                         \* an empty line
    <<"#", " ">> }                \* "# "     an empty heading text

BoundedDocs ==
  UNION { { join(<<NL>>, ls) : ls \in [1..n -> LinePool] } : n \in 0..MaxLines }

\* "# A\nfoo\n# B\nbar"
RoundTripDoc ==
  <<"#", " ", "A", NL, "f", "o", "o", NL, "#", " ", "B", NL, "b", "a", "r">>

ExampleDocs ==
  { RoundTripDoc,
    \* "# X\n# X/\n# X\n"
    <<"#", " ", "X", NL, "#", " ", "X", "/", NL, "#", " ", "X", NL>>,
    \* "#X\n # X\n#  Y \n\n# X\n## X\n"
    <<"#", "X", NL, " ", "#", " ", "X", NL, "#", " ", " ", "Y", " ", NL, NL,
      "#", " ", "X", NL, "#", "#", " ", "X", NL>>,
    \* "# X\n# ..\n# a.b"
    <<"#", " ", "X", NL, "#", " ", ".", ".", NL, "#", " ", "a", ".", "b">> }

Docs == BoundedDocs \cup ExampleDocs

MetadataA == <<"m">>
MetadataB == <<" ", "m", NL>>
ResourcesA == <<"r">> \o Placeholder
ResourcesB == <<NL>> \o Placeholder \o <<"-">> \o Placeholder \o <<" ", NL>>

\* <<metadata template file, resources template file>>
TemplateFiles ==
  { <<Missing, File(ResourcesA)>>,
    <<File(MetadataA), Missing>>,
    <<File(MetadataA), File(ResourcesA)>>,
    <<File(MetadataB), File(ResourcesB)>> }

\* the two flags are mutually exclusive (argparse rejects both)
ArgSets ==
  { a \in [step_1 : BOOLEAN, no_step_1 : BOOLEAN, heading_level : 1..MaxLevel] :
      ~(a.step_1 /\ a.no_step_1) }

\* ---------------------------------------------------------------- Init

Init ==
  /\ pc = "main"
  /\ args \in ArgSets
  /\ epub \in Docs
  /\ outfile \in {Missing, File(epub)}
  /\ \E t \in TemplateFiles : metadata_file = t[1] /\ resources_file = t[2]
  /\ notes = <<>>
  /\ note_files = <<>>
  /\ lines = <<>>
  /\ split_indices = <<>>
  /\ idx = 0
  /\ yaml_template = <<>>
  /\ resources_base = <<>>
  /\ returncode = -1
  /\ trace = <<>>
  /\ chunks = <<>>
  /\ written = <<>>
  /\ writes = <<>>
  /\ reads = {}
  /\ before3 = <<>>
  /\ appended = <<>>

\* ------------------------------------------------------------- actions

\* main, lines 168-175: dispatch on the flags
MainStart ==
  /\ pc = "main"
  /\ pc' = FirstStep(args)
  /\ UNCHANGED <<args, epub, outfile, metadata_file, resources_file, notes,
                 note_files, lines, split_indices, idx, yaml_template,
                 resources_base, returncode, trace, chunks, written, writes,
                 reads, before3, appended>>

\* step_1: pandoc runs; with exit status 0 it has written the output file, with
\* another status it may or may not have
Step1 ==
  /\ pc = "step_1"
  /\ trace' = Append(trace, "step_1")
  /\ \E code \in {0, 1}, produced \in BOOLEAN :
       /\ code = 0 => produced
       /\ returncode' = code
       /\ outfile' = IF produced THEN File(epub) ELSE outfile
       /\ pc' = IF SubprocessRun(code) = "raises" THEN "CalledProcessError"
                ELSE AfterStep1(args)
  /\ UNCHANGED <<args, epub, metadata_file, resources_file, notes, note_files,
                 lines, split_indices, idx, yaml_template, resources_base,
                 chunks, written, writes, reads, before3, appended>>

\* step_2, lines 41-53: read the combined file and find the headings
Step2Begin ==
  /\ pc = "step_2"
  /\ trace' = Append(trace, "step_2")
  /\ IF ~outfile.exists
     THEN /\ pc' = "FileNotFoundError"
          /\ UNCHANGED <<lines, split_indices, idx, note_files>>
     ELSE /\ lines' = splitlines(outfile.data)
          /\ split_indices' = SplitIndices(lines', HeadingStr(args.heading_level))
          /\ note_files' = <<>>
          /\ IF split_indices' = <<>>
             THEN pc' = "main_176" /\ UNCHANGED idx
             ELSE pc' = "step_2_loop" /\ idx' = 1
  /\ UNCHANGED <<args, epub, outfile, metadata_file, resources_file, notes,
                 yaml_template, resources_base, returncode, chunks, written,
                 writes, reads, before3, appended>>

\* step_2, lines 56-68: one iteration of the loop over split_indices
Step2Chunk ==
  /\ pc = "step_2_loop"
  /\ idx <= Len(split_indices)
  /\ LET chunk_lines == ChunkLines(lines, split_indices, idx)
         note_file_path == NotePath(chunk_lines[1])
         data == NoteContent(chunk_lines)
     IN /\ notes' = WriteFile(notes, note_file_path, data)
        /\ note_files' = Append(note_files, note_file_path)
        /\ chunks' = Append(chunks, chunk_lines)
        /\ written' = Append(written, data)
        /\ writes' = Append(writes, <<"step_2", note_file_path>>)
  /\ idx' = idx + 1
  /\ UNCHANGED <<pc, args, epub, outfile, metadata_file, resources_file, lines,
                 split_indices, yaml_template, resources_base, returncode,
                 trace, reads, before3, appended>>

\* step_2, lines 70-71: return note_file_paths
Step2Return ==
  /\ pc = "step_2_loop"
  /\ idx > Len(split_indices)
  /\ pc' = "main_176"
  /\ UNCHANGED <<args, epub, outfile, metadata_file, resources_file, notes,
                 note_files, lines, split_indices, idx, yaml_template,
                 resources_base, returncode, trace, chunks, written, writes,
                 reads, before3, appended>>

\* main, lines 176-179
MainAfterSplit ==
  /\ pc = "main_176"
  /\ pc' = AfterSplit(note_files)
  /\ UNCHANGED <<args, epub, outfile, metadata_file, resources_file, notes,
                 note_files, lines, split_indices, idx, yaml_template,
                 resources_base, returncode, trace, chunks, written, writes,
                 reads, before3, appended>>

\* step_3, lines 82-84: load the metadata template
Step3Begin ==
  /\ pc = "step_3"
  /\ trace' = Append(trace, "step_3")
  /\ reads' = reads \cup {"metadata"}
  /\ before3' = notes
  /\ IF ~metadata_file.exists
     THEN pc' = "FileNotFoundError" /\ UNCHANGED <<yaml_template, idx>>
     ELSE /\ yaml_template' = strip(metadata_file.data)
          /\ idx' = 1
          /\ pc' = "step_3_loop"
  /\ UNCHANGED <<args, epub, outfile, metadata_file, resources_file, notes,
                 note_files, lines, split_indices, resources_base, returncode,
                 chunks, written, writes, appended>>

\* step_3, lines 85-91: one iteration of the loop over note_files
Step3Note ==
  /\ pc = "step_3_loop"
  /\ idx <= Len(note_files)
  /\ LET note_path == note_files[idx]
     IN IF IsMarkdownPath(note_path)
        THEN /\ notes' = WriteFile(notes, note_path,
                                   NewContent3(yaml_template, notes[note_path]))
             /\ writes' = Append(writes, <<"step_3", note_path>>)
        ELSE UNCHANGED <<notes, writes>>
  /\ idx' = idx + 1
  /\ UNCHANGED <<pc, args, epub, outfile, metadata_file, resources_file,
                 note_files, lines, split_indices, yaml_template,
                 resources_base, returncode, trace, chunks, written, reads,
                 before3, appended>>

\* step_3, line 92: the loop is over
Step3Return ==
  /\ pc = "step_3_loop"
  /\ idx > Len(note_files)
  /\ pc' = "step_4"
  /\ UNCHANGED <<args, epub, outfile, metadata_file, resources_file, notes,
                 note_files, lines, split_indices, idx, yaml_template,
                 resources_base, returncode, trace, chunks, written, writes,
                 reads, before3, appended>>

\* step_4, lines 104-106: load the resources template
Step4Begin ==
  /\ pc = "step_4"
  /\ trace' = Append(trace, "step_4")
  /\ reads' = reads \cup {"resources"}
  /\ IF ~resources_file.exists
     THEN pc' = "FileNotFoundError" /\ UNCHANGED <<resources_base, idx>>
     ELSE /\ resources_base' = strip(resources_file.data)
          /\ idx' = 1
          /\ pc' = "step_4_loop"
  /\ UNCHANGED <<args, epub, outfile, metadata_file, resources_file, notes,
                 note_files, lines, split_indices, yaml_template, returncode,
                 chunks, written, writes, before3, appended>>

\* step_4, lines 107-120: one iteration of the loop over note_files
Step4Note ==
  /\ pc = "step_4_loop"
  /\ idx <= Len(note_files)
  /\ LET current_note == note_files[idx]
         resources_content ==
           ResourcesContent(resources_base, NextNoteLink(note_files, idx))
     IN /\ notes' = WriteFile(notes, current_note,
                              NewContent4(notes[current_note], resources_content))
        /\ writes' = Append(writes, <<"step_4", current_note>>)
        /\ appended' = Append(appended, resources_content)
  /\ idx' = idx + 1
  /\ UNCHANGED <<pc, args, epub, outfile, metadata_file, resources_file,
                 note_files, lines, split_indices, yaml_template,
                 resources_base, returncode, trace, chunks, written, reads,
                 before3>>

\* step_4, lines 121-122, and main, line 181
Step4Return ==
  /\ pc = "step_4_loop"
  /\ idx > Len(note_files)
  /\ pc' = "done"
  /\ UNCHANGED <<args, epub, outfile, metadata_file, resources_file, notes,
                 note_files, lines, split_indices, idx, yaml_template,
                 resources_base, returncode, trace, chunks, written, writes,
                 reads, before3, appended>>

Next ==
  \/ MainStart
  \/ Step1
  \/ Step2Begin
  \/ Step2Chunk
  \/ Step2Return
  \/ MainAfterSplit
  \/ Step3Begin
  \/ Step3Note
  \/ Step3Return
  \/ Step4Begin
  \/ Step4Note
  \/ Step4Return

Spec == Init /\ [][Next]_vars

\* the program is sequential and runs each step to its end
FairSpec == Spec /\ WF_vars(Next)

\* ------------------------------------------------- vocabulary of the claims

Running ==
  {"main", "step_1", "step_2", "step_2_loop", "main_176", "step_3",
   "step_3_loop", "step_4", "step_4_loop"}

Halted == pc \notin Running

Entered(step) == step \in Range(trace)

\* step_2 has read the combined file and returned to main
Step2Returned ==
  /\ Entered("step_2")
  /\ outfile.exists
  /\ pc # "step_2_loop"

\* the lines of the combined document
DocLines == splitlines(outfile.data)

\* the number of "#" characters a line begins with
LeadingHashes(line) ==
  IF \A k \in DOMAIN line : line[k] = "#" THEN Len(line)
  ELSE (CHOOSE k \in DOMAIN line :
          line[k] # "#" /\ \A m \in 1..(k - 1) : line[m] = "#") - 1

\* the line begins with exactly L "#" characters immediately followed by a space
Boundary(line, L) ==
  /\ LeadingHashes(line) = L
  /\ Len(line) > L
  /\ line[L + 1] = " "

BoundaryLines == {k \in DOMAIN DocLines : Boundary(DocLines[k], args.heading_level)}

SetMin(S) == CHOOSE x \in S : \A y \in S : x <= y
SetMax(S) == CHOOSE x \in S : \A y \in S : x >= y

RECURSIVE Flatten(_)
Flatten(ss) == IF ss = <<>> THEN <<>> ELSE Head(ss) \o Flatten(Tail(ss))

Positions(seq, x) == {k \in DOMAIN seq : seq[k] = x}

Count(seq, x) == Cardinality(Positions(seq, x))

\* the text between the first and the last non-whitespace character
Trimmed(text) ==
  LET solid == {k \in DOMAIN text : text[k] \notin Whitespace}
  IN IF solid = {} THEN <<>> ELSE SubSeq(text, SetMin(solid), SetMax(solid))

\* a file name without its final ".md"
WithoutMd(name) == SubSeq(name, 1, Len(name) - Len(MD))

\* ---------------------------------------------------------------- claims

\* C1: the note-path sequence step_2 returns has exactly as many entries as
\* the document has lines beginning with exactly L '#' characters immediately
\* followed by a space; a line with more than L leading '#' is no boundary.
C1_NoteCountIsBoundaryCount ==
  Step2Returned =>
    /\ Len(note_files) = Cardinality(BoundaryLines)
    /\ \A k \in DOMAIN DocLines :
         LeadingHashes(DocLines[k]) > args.heading_level
           => k \notin Range(split_indices)

C1_Witness ==
  /\ Step2Returned
  /\ Len(note_files) >= 2
  /\ \E k \in DOMAIN DocLines :
       /\ LeadingHashes(DocLines[k]) > args.heading_level
       /\ Len(DocLines[k]) > LeadingHashes(DocLines[k])
       /\ DocLines[k][LeadingHashes(DocLines[k]) + 1] = " "

\* C2: with at least one boundary line, the chunks of step_2 concatenated in
\* production order are the lines of the document from the first boundary line
\* through the last line; each chunk starts at a boundary line and holds no
\* other one; no line before the first boundary line is in a chunk.
C2_ChunksPartitionTail ==
  (Step2Returned /\ BoundaryLines # {}) =>
    /\ Flatten(chunks) = SubSeq(DocLines, SetMin(BoundaryLines), Len(DocLines))
    /\ \A c \in DOMAIN chunks :
         /\ chunks[c] # <<>>
         /\ Boundary(chunks[c][1], args.heading_level)
         /\ \A m \in 2..Len(chunks[c]) :
              ~Boundary(chunks[c][m], args.heading_level)

C2_Witness ==
  /\ Step2Returned
  /\ BoundaryLines # {}
  /\ SetMin(BoundaryLines) > 1
  /\ Len(chunks) >= 2
  /\ \E c \in DOMAIN chunks : Len(chunks[c]) >= 2

\* the next-note reference the claim names for position i
ClaimedLink(i) ==
  IF i = Len(note_files) THEN NoNext
  ELSE <<"[", "[">> \o WithoutMd(basename(note_files[i + 1])) \o <<"]", "]">>

\* C3: for every position i of the note sequence, the text step_4 appends is
\* the resources template with every <NEXT_NOTE_LINK> replaced by 'N/A' at the
\* last position and otherwise by '[[b]]', b the file name without the .md
\* extension of the note at position i+1 in the Splitter's output order.
C3_LinkIsNextBaseName ==
  \A i \in DOMAIN appended :
    appended[i] = replace(resources_base, Placeholder, ClaimedLink(i))

\* the positions of the note sequence that hold the same path as position i
SamePath(i) == Positions(note_files, note_files[i])

ZeroMatchSplit ==
  /\ Entered("step_2")
  /\ outfile.exists
  /\ BoundaryLines = {}

\* C5: when the document has no boundary line, step_2 returns an empty
\* sequence and writes no note, and main then terminates without entering
\* step_3 or step_4: no template is read, no file is modified.
C5_ZeroMatchStopsPipeline ==
  ZeroMatchSplit =>
    /\ note_files = <<>>
    /\ notes = <<>>
    /\ writes = <<>>
    /\ reads = {}
    /\ ~Entered("step_3")
    /\ ~Entered("step_4")
    /\ pc \in {"main_176", "exit_no_notes"}
    /\ pc = "exit_no_notes" \/ ENABLED MainAfterSplit

\* under fair scheduling the zero-match run reaches the early exit
ZeroMatchTerminates == ZeroMatchSplit ~> pc = "exit_no_notes"

C5_Witness ==
  /\ ZeroMatchSplit
  /\ pc = "exit_no_notes"
  /\ \E k \in DOMAIN DocLines : LeadingHashes(DocLines[k]) > 0

\* the last position of the note sequence that holds the path of position i
LastSamePath(i) == SetMax(SamePath(i))

\* C6 as stated: of any two headings with the same sanitized name the file
\* holds the later one's chunk, and the earlier one's chunk content is in no
\* note file.
C6_LaterOfTwoWins ==
  pc = "main_176" =>
    \A i, j \in DOMAIN note_files :
      (i < j /\ note_files[i] = note_files[j]) =>
        /\ notes[note_files[j]] = written[j]
        /\ \A q \in DOMAIN notes : notes[q] # written[i]

\* C6, amended: when headings sanitize to the same name X, the notes directory
\* holds one file X.md for them, its content is the chunk of the last such
\* heading in document order, and the chunk content of every earlier one is in
\* no note file unless it is identical to that last chunk.
C6_LastCollidingHeadingWins ==
  pc = "main_176" =>
    /\ DOMAIN notes = Range(note_files)
    /\ \A i \in DOMAIN note_files :
         /\ notes[note_files[i]] = written[LastSamePath(i)]
         /\ (i < LastSamePath(i) /\ written[i] # written[LastSamePath(i)])
              => \A q \in DOMAIN notes : notes[q] # written[i]

C6_Witness ==
  /\ pc = "main_176"
  /\ \E i \in DOMAIN note_files :
       /\ Cardinality(SamePath(i)) >= 3
       /\ i < LastSamePath(i)
       /\ written[i] # written[LastSamePath(i)]
       /\ chunks[i][1] # chunks[LastSamePath(i)][1]

\* the steps main may enter, in order, under the flags given
StagePlan ==
  IF args.step_1 THEN <<"step_1">>
  ELSE IF args.no_step_1 THEN <<"step_2", "step_3", "step_4">>
  ELSE <<"step_1", "step_2", "step_3", "step_4">>

IsPrefix(s, t) == Len(s) <= Len(t) /\ SubSeq(t, 1, Len(s)) = s

StageWrites(step) == {k \in DOMAIN writes : writes[k][1] = step}

\* C7: the stages start in the order Converter, Splitter, Metadata Injector,
\* Resource Appender, each only after the previous one has finished for all
\* notes; with the conversion-only flag only the Converter runs and no note is
\* created or modified; with the skip-conversion flag the Converter never
\* runs and the Splitter is the first stage.
C7_StagesRunInOrder ==
  /\ IsPrefix(trace, StagePlan)
  /\ Halted => trace # <<>>
  /\ pc = "done" => trace = StagePlan
  /\ \A a \in StageWrites("step_3") : \A b \in StageWrites("step_2") : b < a
  /\ \A a \in StageWrites("step_4") : \A b \in StageWrites("step_3") : b < a
  /\ Entered("step_3") =>
       Cardinality(StageWrites("step_2")) = Cardinality(BoundaryLines)
  /\ (Entered("step_4") \/ pc = "step_4") =>
       /\ Cardinality(StageWrites("step_3")) = Len(note_files)
       /\ \A i \in DOMAIN note_files :
            \E k \in StageWrites("step_3") : writes[k][2] = note_files[i]
  /\ args.step_1 =>
       /\ notes = <<>>
       /\ writes = <<>>
       /\ pc \in {"main", "step_1", "exit_step_1"}
  /\ args.no_step_1 => ~Entered("step_1") /\ returncode = -1

C7_Witness ==
  /\ pc = "done"
  /\ ~args.no_step_1
  /\ Len(note_files) >= 2
  /\ Cardinality(StageWrites("step_4")) = Len(note_files)

ConverterFailed == returncode \notin {-1, 0}

\* C8: when pandoc exits with a non-zero status in a run without the
\* conversion-only flag, step_1 returns normally and main goes on to step_2;
\* afterwards the run can only stop at a zero-heading split, at a file that
\* cannot be opened, or at its end.
C8_ConverterFailureIsNotFatal ==
  (ConverterFailed /\ ~args.step_1) =>
    /\ pc = "step_2" \/ Entered("step_2")
    /\ Halted =>
         \/ pc = "done"
         \/ pc = "exit_no_notes" /\ outfile.exists /\ BoundaryLines = {}
         \/ /\ pc = "FileNotFoundError"
            /\ \/ ~outfile.exists
               \/ ~metadata_file.exists
               \/ ~resources_file.exists

C8_Witness ==
  /\ ConverterFailed
  /\ ~args.step_1
  /\ pc = "done"

A_md == path_join(OutDir, <<"A">> \o MD)
B_md == path_join(OutDir, <<"B">> \o MD)

\* the round trip "# A\nfoo\n# B\nbar" at level 1: A.md and B.md, in order
RoundTripHolds ==
  (Step2Returned /\ outfile.data = RoundTripDoc /\ args.heading_level = 1) =>
    /\ note_files = <<A_md, B_md>>
    /\ written = << <<"#", " ", "A", NL, "f", "o", "o", NL>>,
                    <<"#", " ", "B", NL, "b", "a", "r", NL>> >>

\* C9 as stated: every file step_2 writes is its chunk's lines joined by
\* single newlines and ends in exactly one newline, never in two.
C9_NeverEndsInTwoNewlines ==
  /\ \A k \in DOMAIN written :
       /\ splitlines(written[k]) = chunks[k]
       /\ Count(written[k], NL) = Len(chunks[k])
       /\ Last(written[k]) = NL
       /\ ~EndsWith(written[k], <<NL, NL>>)
  /\ RoundTripHolds

\* C9, amended: every file step_2 writes is its chunk's lines joined by single
\* newlines followed by one more newline; it ends in two consecutive newlines
\* exactly when the chunk's last line is empty. The round trip holds as stated.
C9_JoinedLinesPlusNewline ==
  /\ \A k \in DOMAIN written :
       /\ splitlines(written[k]) = chunks[k]
       /\ Count(written[k], NL) = Len(chunks[k])
       /\ Last(written[k]) = NL
       /\ EndsWith(written[k], <<NL, NL>>) <=> Last(chunks[k]) = <<>>
  /\ RoundTripHolds

C9_Witness ==
  /\ pc = "main_176"
  /\ \E k \in DOMAIN written : EndsWith(written[k], <<NL, NL>>)
  /\ \E k \in DOMAIN written :
       Len(chunks[k]) >= 2 /\ ~EndsWith(written[k], <<NL, NL>>)

\* C10: in a complete run every note file is written exactly once by each of
\* step_2, step_3 and step_4, so the final file is the metadata template, the
\* chunk and the substituted resources block, each once.
C10_WrittenOncePerStage ==
  pc = "done" =>
    \A i \in DOMAIN note_files :
      /\ \A step \in {"step_2", "step_3", "step_4"} :
           Count(writes, <<step, note_files[i]>>) = 1
      /\ notes[note_files[i]] =
           yaml_template \o <<NL, NL>> \o written[i] \o <<NL, NL>>
             \o appended[i] \o <<NL>>

====
